---- MODULE Spec2Model ----
(***************************************************************************)
(* Lease provider of mq-lease-service (internal/lease/leaseprovider.go):   *)
(* one provider, its ProviderState, the storage blob saved under its id,   *)
(* the passive clock, and the calls Acquire, Release and Clear as the HTTP *)
(* handlers make them.  Every call runs under the provider mutex, from     *)
(* Lock to the deferred Unlock, so a call is one atomic step; the steps of *)
(* overlapping calls are modelled in SpecConcurrent and SpecHandlers.      *)
(***************************************************************************)
EXTENDS Integers, FiniteSets, Sequences, TLC

\* ------------------------------------------------------------------ bounds
MaxAge == 2
MaxPriority == 2

\* head SHAs the callers may name, and the head refs a caller may send for one
\* (gh-readonly-queue/<base>/pr-<n>-<hex>, abbreviated to pr-<n>)
SHAs == {"sha1", "sha2", "sha3"}
HeadRefs(sha) ==
    IF sha = "sha1" THEN {"pr-1", "pr-4"}
    ELSE IF sha = "sha2" THEN {"pr-2"}
    ELSE {"pr-3"}

\* ------------------------------------------------------ provider options
StabilizeDuration == 2
TTL == 1
ExpectedRequestCount == 3
\* the delayed-assignment option of the provider; the provider in
\* internal/lease/leaseprovider.go carries no such option, the orchestrator
\* and the tests pass it, and it is modelled as the service documents it
DelayAssignmentCount == 2

\* ------------------------------------------------------------- statuses
StatusPending == "pending"
StatusAcquired == "acquired"
StatusFailure == "failure"
StatusSuccess == "success"
StatusCompleted == "completed"

\* a nil *string (Request.Status) and a nil *Request
NoStatus == "nil"
Nil == [nil |-> TRUE]

\* errors returned by the calls
NoErr == "ok"
ErrLeaseAlreadyAcquired == "lease already acquired"
ErrInvalidStatus == "invalid status for new LeaseRequest"
ErrStatusMismatch == "status missmatch"
ErrNoLeaseAcquired == "no lease acquired"
ErrNotHolder == "does not hold the lease"
ErrUnknownCondition == "unknown condition"

Priorities == 1..MaxPriority

\* Time is kept relative to the clock: the clock reads Now, and a tick of the
\* clock moves every stored timestamp one unit into the past.  The code reads
\* a timestamp only through clock.Since, compared with TTL and
\* StabilizeDuration, so timestamps older than Oldest are kept at Oldest.
Now == 0
Oldest == Now - MaxAge
Older(ts) == IF ts > Oldest THEN ts - 1 ELSE Oldest

\* pointer.StringDeref
StringDeref(ptr, def) == IF ptr = NoStatus THEN def ELSE ptr

\* clock.Since
Since(t, n) == n - t

\* a Request as a caller builds it (lastSeenAt not yet set)
Request(sha, ref, prio, status) ==
    [HeadSHA |-> sha, HeadRef |-> ref, Priority |-> prio, Status |-> status, lastSeenAt |-> 0]

\* ---------------------------------------------------------------- state
VARIABLES
    state,    \* lp.state: [lastUpdatedAt, acquired, known]
    storage,  \* the blob stored under the provider id, or Nil
    resp,     \* the last call and what it returned
    awaited,  \* history: the siblings of a holder released with SUCCESS that were
              \* registered at the release and have not been answered COMPLETED yet
    delay,    \* the configured number of delayed assignments (0: none)
    mutex,    \* lp.mutex: Free, or the client whose call holds it
    calls,    \* for each client, the call it is in and where it stands
    disk,     \* the storage: Healthy, or Failing (Save returns an error)
    providers,\* the orchestrator's registry: key -> provider (SpecOrchestrator)
    store     \* the storage shared by the registry's providers: key -> blob

vars == <<state, storage, resp, awaited, delay, mutex, calls, disk, providers, store>>

Healthy == "healthy"
Failing == "failing"

\* the clients whose calls can overlap; a client out of a call
Clients == {"c1", "c2"}
Free == "free"
Idle ==
    [pc |-> "idle", op |-> "none", req |-> Nil, snap |-> Nil, err |-> NoErr,
     ret |-> Nil, expect |-> Nil]

\* delayCounter is the counter of the delayed-assignment policy
NewProviderState(lastUpdatedAt) ==
    [lastUpdatedAt |-> lastUpdatedAt, acquired |-> Nil, known |-> <<>>, delayCounter |-> 0]

\* map helpers: known is a function from the registered head SHAs
Delete(m, k) == [x \in DOMAIN m \ {k} |-> m[x]]
Put(m, k, v) == [x \in DOMAIN m \cup {k} |-> IF x = k THEN v ELSE m[x]]
Size(m) == Cardinality(DOMAIN m)

\* A write through a *Request that is registered in known.  acquired is a
\* pointer to the same object whenever it names a registered head SHA (a new
\* object enters known only while acquired is nil), so the write shows through
\* acquired as well.
Store(st, sha, r) ==
    [st EXCEPT !.known[sha] = r,
               !.acquired = IF @ # Nil /\ @.HeadSHA = sha THEN r ELSE @]

\* ProviderState.Marshal
Marshal(st) ==
    [last_updated_at |-> st.lastUpdatedAt,
     acquired_sha |-> IF st.acquired # Nil THEN st.acquired.HeadSHA ELSE NoStatus,
     known |-> [k \in DOMAIN st.known |->
                  [head_sha |-> st.known[k].HeadSHA,
                   head_ref |-> st.known[k].HeadRef,
                   priority |-> st.known[k].Priority,
                   status |-> st.known[k].Status,
                   last_seen_at |-> st.known[k].lastSeenAt]]]

\* ProviderState.Unmarshal into the state ps: acquired is looked up in the
\* rebuilt known (nil when the head SHA is not a key), and is left as it is in
\* ps when the blob holds no acquired_sha; the payload has no delay counter
Unmarshal(ps, b) ==
    LET known == [k \in DOMAIN b.known |->
                    [HeadSHA |-> b.known[k].head_sha,
                     HeadRef |-> b.known[k].head_ref,
                     Priority |-> b.known[k].priority,
                     Status |-> b.known[k].status,
                     lastSeenAt |-> b.known[k].last_seen_at]]
    IN  [ps EXCEPT !.lastUpdatedAt = b.last_updated_at,
                   !.known = known,
                   !.acquired = IF b.acquired_sha # NoStatus
                                THEN IF b.acquired_sha \in DOMAIN known
                                     THEN known[b.acquired_sha] ELSE Nil
                                ELSE @]

\* storage.Hydrate: the object is left as it is when no blob is stored
Hydrate(ps, blob) == IF blob = Nil THEN ps ELSE Unmarshal(ps, blob)

\* saveState: storage.Save of the marshalled state under the provider id; an
\* error of Save is logged and the stored blob stays as it was
\* (variant: the state is not saved)
saveState_Never(st) == storage
saveState(st) == IF disk = Failing THEN storage ELSE Marshal(st)

\* evictTTL, the statuses it never evicts (variants: no status is protected;
\* only SUCCESS is)
Protected_None(status) == FALSE
Protected_OnlySuccess(status) == status = StatusSuccess
Protected(status) == status = StatusAcquired \/ status = StatusSuccess

\* evictTTL, the request was last seen longer ago than the TTL (variant: never)
Expired_Never(r, t) == FALSE
Expired(r, t) == Since(r.lastSeenAt, t) > TTL

\* evictTTL
evictTTL(st, t) ==
    LET keep == {k \in DOMAIN st.known :
                    LET status == StringDeref(st.known[k].Status, StatusPending)
                    IN  Protected(status) \/ ~Expired(st.known[k], t)}
    IN  [st EXCEPT !.known = [k \in keep |-> st.known[k]]]

\* cleanup (variants: without the len(known) == 1 test; nothing is cleaned up)
cleanup_Never(st) == st
cleanup_AnyCount(st) ==
    IF st.acquired = Nil THEN st
    ELSE IF StringDeref(st.acquired.Status, StatusAcquired) # StatusCompleted THEN st
    ELSE [st EXCEPT !.known = Delete(@, st.acquired.HeadSHA), !.acquired = Nil]
cleanup(st) ==
    IF st.acquired = Nil THEN st
    ELSE IF StringDeref(st.acquired.Status, StatusAcquired) # StatusCompleted THEN st
    ELSE IF Size(st.known) = 1
         THEN [st EXCEPT !.known = Delete(@, st.acquired.HeadSHA), !.acquired = Nil]
         ELSE st

\* insert returns the state it leaves, the error, and the request it returns
Inserted(st, sha) ==
    [state |-> st, err |-> NoErr,
     req |-> IF sha \in DOMAIN st.known THEN st.known[sha] ELSE Nil]

\* insert, the request is new: a lease is referenced by acquired
\* (variant: unless it was released with FAILURE)
Taken_UnlessFailed(st) == st.acquired # Nil /\ st.acquired.Status # StatusFailure
Taken(st) == st.acquired # Nil

\* insert, the request is new: it asserts a status other than PENDING
\* (variant: the asserted status is not looked at)
InvalidNewStatus_Never(lr) == FALSE
InvalidNewStatus(lr) ==
    lr.Status # NoStatus /\ StringDeref(lr.Status, StatusPending) # StatusPending

\* insert, the request is new
insertNew(st1, lr, t) ==
    IF Taken(st1)
    THEN [state |-> st1, err |-> ErrLeaseAlreadyAcquired, req |-> Nil]
    ELSE IF InvalidNewStatus(lr)
    THEN [state |-> st1, err |-> ErrInvalidStatus, req |-> Nil]
    ELSE Inserted(evictTTL([st1 EXCEPT !.known = Put(@, lr.HeadSHA, [lr EXCEPT !.Status = StatusPending]),
                                       !.lastUpdatedAt = t], t),
                  lr.HeadSHA)

\* insert, the request exists: priority changed, head ref changed
updatePriority(existing, lr) ==
    IF existing.Priority # lr.Priority THEN [existing EXCEPT !.Priority = lr.Priority] ELSE existing
updateHeadRef(existing, lr) ==
    IF existing.HeadRef # lr.HeadRef THEN [existing EXCEPT !.HeadRef = lr.HeadRef] ELSE existing

\* insert, the request exists: status mismatch and the allowed transition
\* (variants: SUCCESS and FAILURE are taken from any stored status; every
\* asserted status is taken; no mismatch is seen)
statusMismatch_Never(existing, lr) == FALSE
statusMismatch(existing, lr) ==
    StringDeref(existing.Status, StatusPending) # StringDeref(lr.Status, StatusPending)
allowedTransition_Always(existing, lr) == TRUE
allowedTransition_FromAny(existing, lr) ==
    StringDeref(lr.Status, StatusPending) \in {StatusSuccess, StatusFailure}
allowedTransition(existing, lr) ==
    /\ StringDeref(existing.Status, StatusPending) = StatusAcquired
    /\ StringDeref(lr.Status, StatusPending) \in {StatusSuccess, StatusFailure}
updateStatus(existing, e2, lr) ==
    IF statusMismatch(existing, lr) /\ allowedTransition(existing, lr)
    THEN [e2 EXCEPT !.Status = StringDeref(lr.Status, StatusPending)] ELSE e2

\* updateRequestLastSeenAt
updateRequestLastSeenAt(request, t) == [request EXCEPT !.lastSeenAt = t]

\* insert, the request exists: lastSeenAt is written, lastUpdatedAt when
\* something changed, then the TTL eviction
insertUpdated(st1, existing, e3, t) ==
    Inserted(evictTTL([Store(st1, e3.HeadSHA, updateRequestLastSeenAt(e3, t))
                          EXCEPT !.lastUpdatedAt = IF e3 # existing THEN t ELSE @], t),
             e3.HeadSHA)

\* insert, the request exists
insertExisting(st1, existing, e2, lr, t) ==
    IF statusMismatch(existing, lr) /\ ~allowedTransition(existing, lr)
    THEN \* returns before lastSeenAt and lastUpdatedAt are written
         [state |-> Store(st1, lr.HeadSHA, e2), err |-> ErrStatusMismatch, req |-> Nil]
    ELSE insertUpdated(st1, existing, updateStatus(existing, e2, lr), t)

\* insert, after cleanup and updateRequestLastSeenAt of the request passed in
insertCleaned(st1, lr, t) ==
    IF lr.HeadSHA \notin DOMAIN st1.known
    THEN insertNew(st1, lr, t)
    ELSE insertExisting(st1, st1.known[lr.HeadSHA],
                        updateHeadRef(updatePriority(st1.known[lr.HeadSHA], lr), lr), lr, t)

\* insert
insert(st0, leaseRequest, t) ==
    insertCleaned(cleanup(st0), updateRequestLastSeenAt(leaseRequest, t), t)

\* the max priority loop of evaluateRequest
RECURSIVE MaxOver(_, _, _)
MaxOver(known, keys, acc) ==
    IF keys = {} THEN acc
    ELSE LET k == CHOOSE x \in keys : TRUE
         IN  MaxOver(known, keys \ {k},
                     IF known[k].Priority > acc THEN known[k].Priority ELSE acc)

maxPriority(known) == MaxOver(known, DOMAIN known, 0)

\* evaluateRequest, first test: the lock is held unless the holder failed
\* (variants: the failure status is not looked at; the lock never holds)
LockHeld_IgnoresFailure(st) == st.acquired # Nil
LockHeld_Never(st) == FALSE
LockHeld(st) ==
    st.acquired # Nil /\ ~(StringDeref(st.acquired.Status, StatusAcquired) = StatusFailure)

\* evaluateRequest, 1st: the stabilize duration has passed since the last update
\* (variant: strictly more than the duration)
passedStabilizeDuration_Strict(st, t) == Since(st.lastUpdatedAt, t) > StabilizeDuration
passedStabilizeDuration(st, t) == Since(st.lastUpdatedAt, t) >= StabilizeDuration

\* evaluateRequest, 2nd: all the expected requests are registered
\* (variant: strictly more than expected)
reachedExpectedRequestCount_Strict(st) == Size(st.known) > ExpectedRequestCount
reachedExpectedRequestCount(st) == Size(st.known) >= ExpectedRequestCount

\* evaluateRequest, 3rd: keep waiting for more requests (variants: never wait;
\* wait also when acquired is set)
StillWaiting_Never(st, t) == FALSE
StillWaiting_AnyAcquired(st, t) ==
    ~(Since(st.lastUpdatedAt, t) >= StabilizeDuration) /\ ~(Size(st.known) >= ExpectedRequestCount)
StillWaiting(st, t) ==
    st.acquired = Nil /\ (~passedStabilizeDuration(st, t) /\ ~reachedExpectedRequestCount(st))

\* evaluateRequest, the winner test (variant: every caller wins)
IsWinner_Any(st, req) == TRUE
IsWinner(st, req) == req.Priority = maxPriority(st.known)

\* evaluateRequest, the winner takes the lock (variant: the status is left as it is)
Win_StatusNotSet(st, sha) == [st EXCEPT !.acquired = st.known[sha]]
Win(st, sha) ==
    LET won == [st.known[sha] EXCEPT !.Status = StatusAcquired]
    IN  [st EXCEPT !.known[sha] = won, !.acquired = won]

\* the delayed-assignment policy: the winner's assignment is delayed while
\* delayCounter < DelayAssignmentCount, and each delayed call counts
\* (variant: never delayed)
Delayed_Never(st) == FALSE
Delayed(st) == st.delayCounter < delay
Delay(st) == [st EXCEPT !.delayCounter = @ + 1]

\* evaluateRequest on the registered request sha (the argument is part of the map)
evaluateRequest(st, sha, t) ==
    IF LockHeld(st) THEN st
    ELSE IF StillWaiting(st, t) THEN st
    ELSE IF IsWinner(st, st.known[sha])
    THEN IF Delayed(st) THEN Delay(st) ELSE Win(st, sha)
    ELSE st

\* Acquire, the test that the lease was released with success (variant: never)
HolderSucceeded_Never(st) == FALSE
HolderSucceeded(st) ==
    st.acquired # Nil /\ StringDeref(st.acquired.Status, StatusPending) = StatusCompleted

\* Acquire, the caller answered COMPLETED is deleted from known
\* (variant: it stays registered)
Dismissed_Kept(known, sha) == known
Dismissed(known, sha) == Delete(known, sha)

\* Acquire, after insert: the COMPLETED answer or the evaluation
acquireInserted(ins, sha, t) ==
    IF ins.err # NoErr
    THEN [state |-> ins.state, err |-> ins.err, req |-> Nil]
    ELSE IF HolderSucceeded(ins.state)
    THEN [state |-> [Store(ins.state, sha, [ins.req EXCEPT !.Status = StatusCompleted])
                        EXCEPT !.known = Dismissed(@, sha)],
          err |-> NoErr, req |-> [ins.req EXCEPT !.Status = StatusCompleted]]
    ELSE Inserted(evaluateRequest(ins.state, sha, t), sha)

\* Acquire, from Lock to the deferred saveState: the state it leaves and what it returns
AcquireCall(st, leaseRequest, t) ==
    acquireInserted(insert(st, leaseRequest, t), leaseRequest.HeadSHA, t)

\* Release with FAILURE: the holder was the last one, the state is reset
\* (variant: always)
LastOne_Always(known) == TRUE
LastOne(known) == Size(known) = 0

\* Release, after insert: by the status of the request
releaseInserted(ins, sha, status) ==
    IF status = StatusSuccess
    THEN [state |-> Store(ins.state, sha, [ins.req EXCEPT !.Status = StatusCompleted]),
          err |-> NoErr, req |-> [ins.req EXCEPT !.Status = StatusCompleted]]
    ELSE IF status = StatusFailure
    THEN [state |-> [ins.state EXCEPT
                       !.known = Delete(@, sha),
                       !.acquired = IF LastOne(Delete(ins.state.known, sha)) THEN Nil ELSE @],
          err |-> NoErr, req |-> ins.req]
    ELSE [state |-> ins.state, err |-> ErrUnknownCondition, req |-> ins.req]

\* Release, the holder's request went through insert
releaseHolder(ins, sha) ==
    IF ins.err # NoErr
    THEN [state |-> ins.state, err |-> ins.err, req |-> Nil]
    ELSE releaseInserted(ins, sha, StringDeref(ins.req.Status, StatusAcquired))

\* Release, 2.: the request does not name the holder (variant: never)
NotHolder_Never(st, leaseRequest) == FALSE
NotHolder(st, leaseRequest) == st.acquired.HeadSHA # leaseRequest.HeadSHA

\* Release, from Lock to the deferred saveState
ReleaseCall(st, leaseRequest, t) ==
    IF st.acquired = Nil
    THEN [state |-> st, err |-> ErrNoLeaseAcquired, req |-> Nil]
    ELSE IF NotHolder(st, leaseRequest)
    THEN [state |-> st, err |-> ErrNotHolder, req |-> Nil]
    ELSE releaseHolder(insert(st, leaseRequest, t), leaseRequest.HeadSHA)

\* what a call returned: the error, and the returned request's status
Response(op, leaseRequest, out) ==
    [op |-> op, HeadSHA |-> leaseRequest.HeadSHA, err |-> out.err,
     status |-> IF out.req = Nil THEN NoStatus ELSE out.req.Status]

\* the requests the handlers can build: POST /acquire carries no status,
\* POST /release carries success or failure
AcquireInputs ==
    UNION {{Request(sha, ref, prio, NoStatus) : ref \in HeadRefs(sha), prio \in Priorities} :
           sha \in SHAs}
ReleaseInputs ==
    UNION {{Request(sha, ref, prio, status) :
               ref \in HeadRefs(sha), prio \in Priorities,
               status \in {StatusSuccess, StatusFailure}} : sha \in SHAs}

\* --------------------------------------------------------------- actions
NoResponse == [op |-> "none", HeadSHA |-> "", err |-> NoErr, status |-> NoStatus]

\* the history is recorded in SpecHistory only
HistoryOff == {"off"}

Start ==
    /\ state = NewProviderState(Now)
    /\ storage = Nil
    /\ resp = NoResponse
    /\ mutex = Free
    /\ calls = [c \in Clients |-> Idle]
    /\ providers = <<>>
    /\ store = <<>>

Init == Start /\ awaited = HistoryOff /\ delay = 0 /\ disk = Healthy

InitHistory == Start /\ awaited = {} /\ delay = 0 /\ disk = Healthy

\* the provider is configured with delayed assignments
InitDelay == Start /\ awaited = HistoryOff /\ delay = DelayAssignmentCount /\ disk = Healthy

\* the storage may be failing from the start
InitStorage == Start /\ awaited = HistoryOff /\ delay = 0 /\ disk \in {Healthy, Failing}

\* a call returned out: the state, the saved blob, the response
\* (variant: an error of Save fails the call and undoes it)
Returns_SaveFatal(op, leaseRequest, out) ==
    /\ state' = IF disk = Failing THEN state ELSE out.state
    /\ storage' = saveState(out.state)
    /\ resp' = IF disk = Failing
               THEN [op |-> op, HeadSHA |-> leaseRequest.HeadSHA, err |-> "save failed",
                     status |-> NoStatus]
               ELSE Response(op, leaseRequest, out)
    /\ delay' = delay
    /\ UNCHANGED <<mutex, calls, disk, providers, store>>
Returns(op, leaseRequest, out) ==
    /\ state' = out.state
    /\ storage' = saveState(out.state)
    /\ resp' = Response(op, leaseRequest, out)
    /\ delay' = delay
    /\ UNCHANGED <<mutex, calls, disk, providers, store>>

\* the history after an Acquire: a sibling answered COMPLETED is not awaited any more
AcquireHistory(leaseRequest, out) ==
    awaited' = IF awaited # HistoryOff /\ out.err = NoErr /\ out.req.Status = StatusCompleted
               THEN awaited \ {leaseRequest.HeadSHA}
               ELSE awaited

\* the history after a Release: the siblings registered at a SUCCESS release are awaited
ReleaseHistory(leaseRequest, out) ==
    awaited' = IF awaited # HistoryOff /\ out.err = NoErr /\ out.req.Status = StatusCompleted
               THEN awaited \cup (DOMAIN out.state.known \ {leaseRequest.HeadSHA})
               ELSE awaited

\* POST /acquire
Acquire ==
    \E leaseRequest \in AcquireInputs :
        \E out \in {AcquireCall(state, leaseRequest, Now)} :
            Returns("Acquire", leaseRequest, out) /\ AcquireHistory(leaseRequest, out)

\* POST /release
Release ==
    \E leaseRequest \in ReleaseInputs :
        \E out \in {ReleaseCall(state, leaseRequest, Now)} :
            Returns("Release", leaseRequest, out) /\ ReleaseHistory(leaseRequest, out)

\* DELETE on the provider: Clear (variant: the new state is not saved)
Clear_NotSaved ==
    /\ state' = NewProviderState(Now)
    /\ storage' = storage
    /\ resp' = [op |-> "Clear", HeadSHA |-> "", err |-> NoErr, status |-> NoStatus]
    /\ awaited' = IF awaited # HistoryOff THEN {} ELSE awaited
    /\ delay' = delay
    /\ UNCHANGED <<mutex, calls, disk, providers, store>>
Clear ==
    /\ state' = NewProviderState(Now)
    /\ storage' = saveState(state')
    /\ resp' = [op |-> "Clear", HeadSHA |-> "", err |-> NoErr, status |-> NoStatus]
    /\ awaited' = IF awaited # HistoryOff THEN {} ELSE awaited
    /\ delay' = delay
    /\ UNCHANGED <<mutex, calls, disk, providers, store>>

\* the clock advances by one unit
Elapse(st) ==
    [st EXCEPT !.lastUpdatedAt = Older(@),
               !.acquired = IF @ = Nil THEN @ ELSE [@ EXCEPT !.lastSeenAt = Older(@)],
               !.known = [k \in DOMAIN @ |-> [@[k] EXCEPT !.lastSeenAt = Older(@)]]]

ElapseBlob(b) ==
    IF b = Nil THEN b
    ELSE [b EXCEPT !.last_updated_at = Older(@),
                   !.known = [k \in DOMAIN @ |-> [@[k] EXCEPT !.last_seen_at = Older(@)]]]

Tick ==
    /\ state' = Elapse(state)
    /\ storage' = ElapseBlob(storage)
    /\ UNCHANGED <<resp, awaited, delay, mutex, calls, disk, providers, store>>

Next == Acquire \/ Release \/ Clear \/ Tick

Spec == Init /\ [][Next]_vars

SpecHistory == InitHistory /\ [][Next]_vars

SpecDelay == InitDelay /\ [][Next]_vars

SpecStorage == InitStorage /\ [][Next]_vars

\* the server starts again: NewLeaseProvider, then HydrateFromState
Restart ==
    /\ state' = Hydrate(NewProviderState(Now), storage)
    /\ storage' = storage
    /\ resp' = [op |-> "Hydrate", HeadSHA |-> "", err |-> NoErr, status |-> NoStatus]
    /\ UNCHANGED <<awaited, delay, mutex, calls, disk, providers, store>>

NextRestart == Acquire \/ Release \/ Clear \/ Tick \/ Restart

SpecRestart == Init /\ [][NextRestart]_vars

\* HydrateFromState on the running provider, as Provider exposes it: the
\* state the provider is in is the object storage.Hydrate fills
HydrateFromState ==
    /\ state' = Hydrate(state, storage)
    /\ storage' = storage
    /\ resp' = [op |-> "Hydrate", HeadSHA |-> "", err |-> NoErr, status |-> NoStatus]
    /\ UNCHANGED <<awaited, delay, mutex, calls, disk, providers, store>>

\* the storage starts or stops failing (Save then returns an error, which
\* saveState logs)
Outage ==
    /\ disk' = IF disk = Healthy THEN Failing ELSE Healthy
    /\ UNCHANGED <<state, storage, resp, awaited, delay, mutex, calls, providers, store>>

\* ------------------------------------------------- overlapping calls
\* the calls of the overlapping clients: two head SHAs, one head ref each
ConcurrentSHAs == {"sha1", "sha2"}
ConcurrentRef(sha) == IF sha = "sha1" THEN "pr-1" ELSE "pr-2"
ConcurrentCalls ==
    {[op |-> "Acquire", req |-> lr] :
        lr \in {x \in AcquireInputs :
                   x.HeadSHA \in ConcurrentSHAs /\ x.HeadRef = ConcurrentRef(x.HeadSHA)}}
    \cup {[op |-> "Release", req |-> lr] :
        lr \in {x \in ReleaseInputs :
                   x.HeadSHA \in ConcurrentSHAs /\ x.HeadRef = ConcurrentRef(x.HeadSHA)}}
    \cup {[op |-> "Clear", req |-> Request("", "", 0, NoStatus)]}

\* a whole call under the mutex, from Lock to Unlock
Atomic(op, st, req, t) ==
    CASE op = "Acquire" -> AcquireCall(st, req, t)
      [] op = "Release" -> ReleaseCall(st, req, t)
      [] OTHER -> [state |-> NewProviderState(t), err |-> NoErr, req |-> Nil]

\* the first part of a call's body: Acquire up to the return of insert,
\* Release up to the return of insert, Clear's assignment of the new state
FirstPart(op, st, req, t) ==
    CASE op = "Acquire" -> insert(st, req, t)
      [] op = "Release" ->
            IF st.acquired = Nil
            THEN [state |-> st, err |-> ErrNoLeaseAcquired, req |-> Nil]
            ELSE IF NotHolder(st, req)
            THEN [state |-> st, err |-> ErrNotHolder, req |-> Nil]
            ELSE insert(st, req, t)
      [] OTHER -> [state |-> NewProviderState(t), err |-> NoErr, req |-> Nil]

\* the second part of a call's body, on the state as it is then: req is the
\* pointer insert returned, the registered request of the head SHA
SecondPart(op, st, err, sha, t) ==
    CASE op = "Acquire" ->
            acquireInserted([state |-> st, err |-> err, req |-> Inserted(st, sha).req], sha, t)
      [] op = "Release" ->
            IF err # NoErr THEN [state |-> st, err |-> err, req |-> Nil]
            ELSE releaseHolder([state |-> st, err |-> err, req |-> Inserted(st, sha).req], sha)
      [] OTHER -> [state |-> st, err |-> NoErr, req |-> Nil]

\* lp.mutex.Lock() returns when the mutex is free (variant: always)
MutexFree_Always(m) == TRUE
MutexFree(m) == m = Free

\* lp.mutex.Lock() of a call
Lock(c) ==
    \E call \in ConcurrentCalls :
        /\ calls[c].pc = "idle"
        /\ MutexFree(mutex)
        /\ mutex' = c
        /\ calls' = [calls EXCEPT ![c] = [Idle EXCEPT !.pc = "locked", !.op = call.op,
                                                      !.req = call.req, !.snap = state]]
        /\ UNCHANGED <<state, storage, resp, awaited, delay, disk, providers, store>>

\* the first part of the body
First(c) ==
    /\ calls[c].pc = "locked"
    /\ \E part \in {FirstPart(calls[c].op, state, calls[c].req, Now)} :
          /\ state' = part.state
          /\ calls' = [calls EXCEPT ![c].pc = "inserted", ![c].err = part.err]
    /\ UNCHANGED <<storage, resp, awaited, delay, mutex, disk, providers, store>>

\* the second part of the body
Second(c) ==
    /\ calls[c].pc = "inserted"
    /\ \E out \in {SecondPart(calls[c].op, state, calls[c].err, calls[c].req.HeadSHA, Now)} :
          /\ state' = out.state
          /\ calls' = [calls EXCEPT ![c].pc = "done", ![c].err = out.err, ![c].ret = out.req]
    /\ UNCHANGED <<storage, resp, awaited, delay, mutex, disk, providers, store>>

\* the deferred saveState and Unlock, and the return
Unlock(c) ==
    /\ calls[c].pc = "done"
    /\ storage' = saveState(state)
    /\ resp' = [op |-> calls[c].op, HeadSHA |-> calls[c].req.HeadSHA, err |-> calls[c].err,
                status |-> IF calls[c].ret = Nil THEN NoStatus ELSE calls[c].ret.Status]
    /\ mutex' = Free
    /\ calls' = [calls EXCEPT ![c] = Idle]
    /\ UNCHANGED <<state, awaited, delay, disk, providers, store>>

\* the clock unit is long against a call: it advances between calls
TickBetween == mutex = Free /\ Tick

NextConcurrent ==
    \/ \E c \in Clients : Lock(c) \/ First(c) \/ Second(c) \/ Unlock(c)
    \/ TickBetween

SpecConcurrent == Init /\ [][NextConcurrent]_vars

\* ------------------------------------------------------- the handlers
\* getPRNumberFromRef on the head refs of the model (0: no pull request
\* number can be extracted, the error case)
getPRNumberFromRef(ref) ==
    CASE ref = "pr-1" -> 1
      [] ref = "pr-2" -> 2
      [] ref = "pr-3" -> 3
      [] ref = "pr-4" -> 4
      [] OTHER -> 0

\* computeStackedPullRequests, the filter: the keys of the registered requests
\* whose priority is not higher than the request's
filteredRequestKeys(st, r) ==
    {k \in DOMAIN st.known : ~(st.known[k].Priority > r.Priority)}

\* computeStackedPullRequests, sort.SliceStable by priority of the keys in the
\* order the map iteration gave them: Go iterates a map in no fixed order, so
\* every order of the keys that ascends by priority can come out
sortSliceStable(st, keys) ==
    {s \in [1..Cardinality(keys) -> keys] :
        /\ \A i, j \in DOMAIN s : i # j => s[i] # s[j]
        /\ \A i, j \in DOMAIN s : i < j => ~(st.known[s[j]].Priority < st.known[s[i]].Priority)}

\* computeStackedPullRequests: the lists it can return for the request r
stackedPullRequests(st, r) ==
    {[i \in DOMAIN s |-> [Number |-> getPRNumberFromRef(st.known[s[i]].HeadRef)]] :
        s \in sortSliceStable(st, filteredRequestKeys(st, r))}

\* computeStackedPullRequests, what the list holds whatever its order: the
\* head refs of the filtered requests
computeStackedPullRequests(st, r) ==
    {st.known[k].HeadRef : k \in filteredRequestKeys(st, r)}

\* BuildRequestContext of the request r on the state st (the JSON of the
\* context shows the exported fields of the request)
BuildRequestContext(st, r) ==
    IF r = Nil THEN Nil
    ELSE [HeadSHA |-> r.HeadSHA, HeadRef |-> r.HeadRef, Priority |-> r.Priority,
          Status |-> r.Status,
          StackedPullRequests |->
              IF StringDeref(r.Status, StatusPending) # StatusAcquired THEN {}
              ELSE computeStackedPullRequests(st, r)]

\* MarshalJSON of the provider: the contexts of known and of acquired
\* (last_updated_at is left out: the model's timestamps are relative to now)
MarshalJSON(st) ==
    [acquired |-> BuildRequestContext(st, st.acquired),
     known |-> {BuildRequestContext(st, st.known[k]) : k \in DOMAIN st.known}]

\* What a read through the returned *Request can see outside the mutex: the
\* object as the call left it, or as a later call wrote it while it is still
\* the registered request of its head SHA.
Reads(st, ret) ==
    {ret} \cup (IF ret.HeadSHA \in DOMAIN st.known THEN {st.known[ret.HeadSHA]} ELSE {})

\* the bodies a handler can answer with once its provider call has returned:
\* the error, the provider's JSON after Clear, the request context otherwise
Answers(st, call) ==
    IF call.err # NoErr THEN {Nil}
    ELSE IF call.op = "Clear" THEN {MarshalJSON(st)}
    ELSE {BuildRequestContext(st, r) : r \in Reads(st, call.ret)}

\* the calls of the handlers in SpecHandlers: the releases carry priority 1
HandlerCalls ==
    {call \in ConcurrentCalls : call.op = "Release" => call.req.Priority = 1}

\* a handler's provider call, one atomic step under the mutex; expect is the
\* answer built on the state the call left, snap the state an election left.  The handler serving c1 is followed
\* between its call and its answer; c2 is served in one step.
Handle(c) ==
    \E call \in HandlerCalls :
        \E out \in {Atomic(call.op, state, call.req, Now)} :
            /\ calls[c].pc = "idle"
            /\ state' = out.state
            /\ storage' = saveState(out.state)
            /\ calls' = [calls EXCEPT ![c] =
                           [Idle EXCEPT !.pc = "returned", !.op = call.op, !.req = call.req,
                                        !.err = out.err, !.ret = out.req,
                                        !.snap = IF /\ out.err = NoErr /\ out.req # Nil
                                                    /\ out.req.Status = StatusAcquired
                                                 THEN out.state ELSE Nil,
                                        !.expect = IF out.err # NoErr THEN Nil
                                                   ELSE IF call.op = "Clear"
                                                   THEN MarshalJSON(out.state)
                                                   ELSE BuildRequestContext(out.state, out.req)]]
            /\ UNCHANGED <<resp, awaited, delay, mutex, disk, providers, store>>

\* the handler builds its answer, without the mutex, and sends it
Respond(c) ==
    /\ calls[c].pc = "returned"
    /\ \E body \in Answers(state, calls[c]) :
          resp' = [op |-> calls[c].op, HeadSHA |-> calls[c].req.HeadSHA, err |-> calls[c].err,
                   status |-> IF body = Nil \/ calls[c].op = "Clear" THEN NoStatus
                              ELSE body.Status]
    /\ calls' = [calls EXCEPT ![c] = Idle]
    /\ UNCHANGED <<state, storage, awaited, delay, mutex, disk, providers, store>>

\* a handler from its provider call to its answer, nothing in between
Serve(c) ==
    \E call \in HandlerCalls :
        \E out \in {Atomic(call.op, state, call.req, Now)} :
            /\ calls[c].pc = "idle"
            /\ state' = out.state
            /\ storage' = saveState(out.state)
            /\ resp' = [op |-> call.op, HeadSHA |-> call.req.HeadSHA, err |-> out.err,
                        status |-> IF out.req = Nil THEN NoStatus ELSE out.req.Status]
            /\ UNCHANGED <<awaited, delay, mutex, calls, disk, providers, store>>

\* the handlers' calls one after the other, a storage that can fail, and
\* HydrateFromState on the running provider
NextHydrate == Serve("c2") \/ Tick \/ Outage \/ HydrateFromState

SpecHydrate == Init /\ [][NextHydrate]_vars

NextHandlers == Handle("c1") \/ Respond("c1") \/ Serve("c2") \/ Tick

SpecHandlers == Init /\ [][NextHandlers]_vars

\* ------------------------------------------------------ the orchestrator
\* the repositories of the configuration
Repositories ==
    {[Owner |-> "ankorstore", Name |-> "api", BaseRef |-> "main"],
     [Owner |-> "ankorstore", Name |-> "web", BaseRef |-> "main"]}

getKey(owner, repo, baseRef) == owner \o ":" \o repo \o ":" \o baseRef

\* NewProviderOrchestrator: one provider per repository, its ID the key
NewProviderOrchestrator ==
    [k \in {getKey(r.Owner, r.Name, r.BaseRef) : r \in Repositories} |->
        [id |-> k, state |-> NewProviderState(Now)]]

\* ProviderState.GetIdentifier, the key of the blob (variant: one key for all)
GetIdentifier_Shared(p) == "provider"
GetIdentifier(p) == p.id

\* storage.Save of the provider p, and the blob stored for it
Save(st, p) == Put(st, GetIdentifier(p), Marshal(p.state))
Blob(st, p) == IF GetIdentifier(p) \in DOMAIN st THEN st[GetIdentifier(p)] ELSE Nil

\* the calls routed through the orchestrator: one head SHA
OrchestratorCalls ==
    {call \in ConcurrentCalls : call.op # "Clear" => call.req.HeadSHA = "sha1"}

InitOrchestrator ==
    /\ state = NewProviderState(Now)
    /\ storage = Nil
    /\ resp = NoResponse
    /\ mutex = Free
    /\ calls = [c \in Clients |-> Idle]
    /\ awaited = HistoryOff /\ delay = 0 /\ disk = Healthy
    /\ providers = NewProviderOrchestrator
    /\ store = <<>>

\* a call on the provider orchestrator.Get returns for the repository
Route ==
    \E r \in Repositories : \E call \in OrchestratorCalls :
        \E k \in {getKey(r.Owner, r.Name, r.BaseRef)} :
            \E out \in {Atomic(call.op, providers[k].state, call.req, Now)} :
                /\ k \in DOMAIN providers
                /\ providers' = [providers EXCEPT ![k].state = out.state]
                /\ store' = Save(store, providers'[k])
                /\ resp' = [op |-> call.op, HeadSHA |-> call.req.HeadSHA, err |-> out.err,
                            status |-> IF out.req = Nil THEN NoStatus ELSE out.req.Status,
                            provider |-> k]
                /\ UNCHANGED <<state, storage, awaited, delay, mutex, calls, disk>>

\* the clock, shared by the providers, advances by one unit
TickAll ==
    /\ providers' = [k \in DOMAIN providers |-> [providers[k] EXCEPT !.state = Elapse(@)]]
    /\ store' = [k \in DOMAIN store |-> ElapseBlob(store[k])]
    /\ UNCHANGED <<state, storage, resp, awaited, delay, mutex, calls, disk>>

NextOrchestrator == Route \/ TickAll

SpecOrchestrator == InitOrchestrator /\ [][NextOrchestrator]_vars

\* The Provider interface called directly, as the package's tests call it: the
\* Request may carry any status.  Two head SHAs are enough for every pair of a
\* stored and an asserted status.
Statuses == {StatusPending, StatusAcquired, StatusFailure, StatusSuccess, StatusCompleted}
ProviderSHAs == {"sha1", "sha2"}
ProviderInputs ==
    UNION {{Request(sha, ref, prio, status) :
               ref \in HeadRefs(sha), prio \in Priorities,
               status \in Statuses \cup {NoStatus}} : sha \in ProviderSHAs}

\* Provider.Acquire
ProviderAcquire ==
    \E leaseRequest \in ProviderInputs :
        \E out \in {AcquireCall(state, leaseRequest, Now)} :
            Returns("Acquire", leaseRequest, out) /\ AcquireHistory(leaseRequest, out)

\* Provider.Release
ProviderRelease ==
    \E leaseRequest \in ProviderInputs :
        \E out \in {ReleaseCall(state, leaseRequest, Now)} :
            Returns("Release", leaseRequest, out) /\ ReleaseHistory(leaseRequest, out)

NextProvider == ProviderAcquire \/ ProviderRelease \/ Clear \/ Tick

SpecProvider == Init /\ [][NextProvider]_vars

\* ---------------------------------------------------------- vocabulary
Known == state.known
Acquired == state.acquired
Registered == DOMAIN state.known
NonPending == {k \in Registered : Known[k].Status # StatusPending}
Elected == resp.op = "Acquire" /\ resp.err = NoErr /\ resp.status = StatusAcquired

\* acquired and the registered request of the same head SHA are one object
AliasInv == (Acquired # Nil /\ Acquired.HeadSHA \in Registered) => Known[Acquired.HeadSHA] = Acquired

\* ------------------------------------------------------------------ C1
\* C1: in every reachable state at most one request in known has a status
\* other than PENDING, and so two requests are never ACQUIRED together, also
\* when several callers share the maximum priority.
MutualExclusion ==
    /\ Cardinality(NonPending) <= 1
    /\ Cardinality({k \in Registered : Known[k].Status = StatusAcquired}) <= 1

\* a caller tied with the holder at the maximum priority polled and stayed PENDING
MutualExclusionWitness ==
    /\ resp.op = "Acquire" /\ resp.err = NoErr /\ resp.status = StatusPending
    /\ Acquired # Nil /\ Acquired.Status = StatusAcquired
    /\ Acquired.HeadSHA \in Registered
    /\ resp.HeadSHA \in Registered \ {Acquired.HeadSHA}
    /\ Known[resp.HeadSHA].Priority = Acquired.Priority
    /\ Acquired.Priority = maxPriority(Known)

\* ------------------------------------------------------------------ C2
\* C2: whenever an Acquire call has transitioned a request to ACQUIRED, no
\* request in known has a strictly higher priority than the new holder.
HighestPriorityWins ==
    Elected =>
        /\ resp.HeadSHA \in Registered
        /\ \A k \in Registered : Known[k].Priority <= Known[resp.HeadSHA].Priority

\* a request was elected over a registered request of lower priority
HighestPriorityWinsWitness ==
    /\ Elected
    /\ \E k \in Registered : Known[k].Priority < Known[resp.HeadSHA].Priority

\* --------------------------------------------- calls from the current state
\* the state insert leaves (cleanup, insert or update, TTL eviction), and the
\* outcome of the whole Acquire, for a request the handler may send now
Ins(lr) == insert(state, lr, Now)
Out(lr) == AcquireCall(state, lr, Now)
\* the caller polls again with the priority and head ref it is registered with
Repoll(lr) ==
    /\ lr.HeadSHA \in Registered
    /\ lr.Priority = Known[lr.HeadSHA].Priority
    /\ lr.HeadRef = Known[lr.HeadSHA].HeadRef
Returned(out, status) == out.err = NoErr /\ out.req # Nil /\ out.req.Status = status
AllPending(st) == \A k \in DOMAIN st.known : st.known[k].Status = StatusPending

\* ------------------------------------------------------------------ C3
\* C3: if, at the evaluation step of an Acquire (after its insert and TTL
\* eviction), |known| < ExpectedRequestCount, the stabilize duration has not
\* passed since lastUpdatedAt and acquired is absent, the call elects nobody
\* and returns the caller PENDING.
StabilizationLaw ==
    \A lr \in AcquireInputs :
        ( /\ Ins(lr).err = NoErr
          /\ Size(Ins(lr).state.known) < ExpectedRequestCount
          /\ Since(Ins(lr).state.lastUpdatedAt, Now) < StabilizeDuration
          /\ Ins(lr).state.acquired = Nil )
        => /\ Returned(Out(lr), StatusPending)
           /\ Out(lr).state.acquired = Nil
           /\ AllPending(Out(lr).state)

\* the caller with the maximum priority polled before quorum and before the
\* stabilize duration passed, and was returned PENDING
StabilizationLawWitness ==
    /\ resp.op = "Acquire" /\ resp.err = NoErr /\ resp.status = StatusPending
    /\ Acquired = Nil
    /\ Size(Known) < ExpectedRequestCount /\ Size(Known) >= 2
    /\ Since(state.lastUpdatedAt, Now) < StabilizeDuration
    /\ resp.HeadSHA \in Registered
    /\ Known[resp.HeadSHA].Priority = maxPriority(Known)

\* ------------------------------------------------------------------ C4
\* C4 as claimed: if |known| >= ExpectedRequestCount and acquired is absent,
\* the next Acquire of the highest-priority request in known (polling
\* unchanged) transitions it to ACQUIRED, whatever the clock reads.
QuorumLawAsClaimed ==
    \A lr \in AcquireInputs :
        ( /\ Acquired = Nil
          /\ Size(Known) >= ExpectedRequestCount
          /\ Repoll(lr)
          /\ lr.Priority = maxPriority(Known) )
        => Returned(Out(lr), StatusAcquired)

\* C4 amended: if, at the evaluation step of an Acquire (after its insert and
\* TTL eviction), |known| >= ExpectedRequestCount and acquired is absent, and
\* the caller's priority is the maximum in known, the call transitions the
\* caller to ACQUIRED whatever the clock reads.
QuorumLaw ==
    \A lr \in AcquireInputs :
        ( /\ Ins(lr).err = NoErr
          /\ Ins(lr).state.acquired = Nil
          /\ Size(Ins(lr).state.known) >= ExpectedRequestCount
          /\ lr.Priority = maxPriority(Ins(lr).state.known) )
        => /\ Returned(Out(lr), StatusAcquired)
           /\ Out(lr).state.acquired = Out(lr).req
           /\ Out(lr).req.HeadSHA = lr.HeadSHA

\* a request was elected on quorum before the stabilize duration had passed
QuorumLawWitness ==
    /\ Elected
    /\ Size(Known) >= ExpectedRequestCount
    /\ Since(state.lastUpdatedAt, Now) < StabilizeDuration
    /\ Acquired # Nil /\ Acquired.HeadSHA = resp.HeadSHA

WorkDoneOnce ==
    \A k \in Registered : Known[k].Status = StatusAcquired => k \notin awaited

\* ------------------------------------------------------------------ C7
\* C7 as claimed: after the holder's Release with FAILURE while siblings
\* remain, the next Acquire of the highest-priority remaining request returns
\* ACQUIRED, and an Acquire of a lower-priority remaining request returns
\* PENDING.
FailureReelectionAsClaimed ==
    \A lr \in AcquireInputs :
        ( /\ Acquired # Nil
          /\ Acquired.Status = StatusFailure
          /\ Repoll(lr) )
        => IF lr.Priority = maxPriority(Known)
           THEN Returned(Out(lr), StatusAcquired)
           ELSE Returned(Out(lr), StatusPending)

\* C7 amended: after the holder's Release with FAILURE while siblings remain,
\* an Acquire of a remaining request returns ACQUIRED when its priority is the
\* maximum over the requests left in known after the call's TTL eviction,
\* without stabilization or quorum, and PENDING when a request of higher
\* priority is left in known after that eviction.
FailureReelection ==
    \A lr \in AcquireInputs :
        ( /\ Acquired # Nil
          /\ Acquired.Status = StatusFailure
          /\ lr.HeadSHA \in Registered )
        => /\ Ins(lr).err = NoErr
           /\ IF lr.Priority = maxPriority(Ins(lr).state.known)
              THEN /\ Returned(Out(lr), StatusAcquired)
                   /\ Out(lr).state.acquired = Out(lr).req
              ELSE /\ Returned(Out(lr), StatusPending)
                   /\ Out(lr).state.acquired = Acquired

\* a remaining request was elected below quorum and inside the stabilization
\* window, over a remaining request of lower priority
FailureReelectionWitness ==
    /\ Elected
    /\ Size(Known) < ExpectedRequestCount
    /\ Since(state.lastUpdatedAt, Now) < StabilizeDuration
    /\ \E k \in Registered : Known[k].Priority < Known[resp.HeadSHA].Priority

\* ------------------------------------------------------------------ C8
\* C8 as claimed: if acquired is present with a status other than FAILURE and
\* the request's headSHA is not in known, Acquire fails with the
\* lease-already-acquired error and adds nothing to known.
NewEntryRejectionAsClaimed ==
    \A lr \in AcquireInputs :
        ( /\ Acquired # Nil
          /\ Acquired.Status # StatusFailure
          /\ lr.HeadSHA \notin Registered )
        => /\ Out(lr).err = ErrLeaseAlreadyAcquired
           /\ Out(lr).state.known = Known

\* C8 amended: the same, unless the acquired request is COMPLETED and is the
\* only request left in known: cleanup then drops it first and the new
\* request is registered.
NewEntryRejection ==
    \A lr \in AcquireInputs :
        ( /\ Acquired # Nil
          /\ Acquired.Status # StatusFailure
          /\ ~(Acquired.Status = StatusCompleted /\ Size(Known) = 1)
          /\ lr.HeadSHA \notin Registered )
        => /\ Out(lr).err = ErrLeaseAlreadyAcquired
           /\ Out(lr).state = state

\* a new head SHA was rejected while the lease is held
NewEntryRejectionWitness ==
    /\ resp.op = "Acquire" /\ resp.err = ErrLeaseAlreadyAcquired
    /\ resp.HeadSHA \notin Registered
    /\ Acquired # Nil /\ Acquired.Status = StatusAcquired

\* ------------------------------------------------------------------ C9
\* C9 as claimed: if acquired is present then its headSHA is a key of known.
AcquiredInKnownAsClaimed == Acquired # Nil => Acquired.HeadSHA \in Registered

\* C9 amended: if acquired is present with status ACQUIRED or SUCCESS then
\* its headSHA is a key of known (and names that very request); a holder
\* released with FAILURE while siblings remain stays referenced by acquired
\* after its removal from known.
AcquiredInKnown ==
    Acquired # Nil =>
        /\ Acquired.Status \in {StatusAcquired, StatusSuccess}
              => (Acquired.HeadSHA \in Registered /\ Known[Acquired.HeadSHA] = Acquired)
        /\ Acquired.Status = StatusFailure
              => (Acquired.HeadSHA \notin Registered /\ Registered # {})

\* a holder idle for longer than the TTL is still registered after another
\* request's call ran the TTL eviction
AcquiredInKnownWitness ==
    /\ Acquired # Nil /\ Acquired.Status = StatusAcquired
    /\ Since(Acquired.lastSeenAt, Now) > TTL
    /\ resp.op = "Acquire" /\ resp.err = NoErr /\ resp.HeadSHA # Acquired.HeadSHA
    /\ Known[resp.HeadSHA].lastSeenAt = Now

\* ----------------------------------------------------------------- C10
\* C10: acquired is absent or is one request whose status is ACQUIRED,
\* SUCCESS, FAILURE or COMPLETED; the acquired request is never PENDING.
AtMostOneWinner ==
    Acquired # Nil =>
        /\ Acquired.Status \in {StatusAcquired, StatusSuccess, StatusFailure, StatusCompleted}
        /\ Acquired.HeadSHA \in SHAs
        /\ \A k \in NonPending : Known[k] = Acquired

\* the holder released with SUCCESS and acquired still references it, COMPLETED
AtMostOneWinnerWitness ==
    /\ resp.op = "Release" /\ resp.err = NoErr /\ resp.status = StatusCompleted
    /\ Acquired # Nil /\ Acquired.Status = StatusCompleted
    /\ Cardinality(Registered) >= 2

\* ----------------------------------------------------------------- C11
\* the outcome of a Release the handler may send now
Rel(lr) == ReleaseCall(state, lr, Now)

\* C11: Release fails with an error and leaves the state as it is when no
\* lease is held (acquired absent) or when the caller's headSHA differs from
\* the acquired request's headSHA.
OnlyHolderReleases ==
    \A lr \in ReleaseInputs :
        (Acquired = Nil \/ Acquired.HeadSHA # lr.HeadSHA)
        => /\ Rel(lr).err = IF Acquired = Nil THEN ErrNoLeaseAcquired ELSE ErrNotHolder
           /\ Rel(lr).req = Nil
           /\ Rel(lr).state = state

\* a registered sibling of the holder called Release and was rejected
OnlyHolderReleasesWitness ==
    /\ resp.op = "Release" /\ resp.err = ErrNotHolder
    /\ Acquired # Nil /\ Acquired.Status = StatusAcquired
    /\ Acquired.HeadSHA \in Registered
    /\ resp.HeadSHA \in Registered

NextCycleGating ==
    \A d \in AcquireInputs :
        ( /\ Acquired # Nil
          /\ Acquired.Status = StatusCompleted
          /\ d.HeadSHA \notin Registered )
        => IF \E k \in Registered \ {Acquired.HeadSHA} : ~Expired(Known[k], Now)
           THEN Out(d).err = ErrLeaseAlreadyAcquired
           ELSE /\ Out(d).err = NoErr
                /\ d.HeadSHA \in DOMAIN Out(d).state.known

\* ----------------------------------------------------------------- C17
\* C17: TTL eviction never removes a request whose status is ACQUIRED or
\* SUCCESS from known, however long ago it was last seen: the eviction run on
\* the current state keeps the holder, also once its status is SUCCESS, and
\* after every Acquire, and every Release by another caller, the holder is
\* still in known, ACQUIRED and referenced by acquired.
EvictionSafety ==
    \A k \in Registered :
        Known[k].Status = StatusAcquired
        => /\ k \in DOMAIN evictTTL(state, Now).known
           /\ k \in DOMAIN evictTTL(Store(state, k, [Known[k] EXCEPT !.Status = StatusSuccess]),
                                    Now).known
           /\ \A lr \in AcquireInputs :
                 /\ k \in DOMAIN Out(lr).state.known
                 /\ Out(lr).state.known[k].Status = StatusAcquired
                 /\ Out(lr).state.acquired = Out(lr).state.known[k]
           /\ \A lr \in ReleaseInputs :
                 lr.HeadSHA # k
                 => /\ k \in DOMAIN Rel(lr).state.known
                    /\ Rel(lr).state.acquired = Rel(lr).state.known[k]

\* the holder has been idle for as long as the model counts, and a sibling's
\* Acquire has just run the eviction and was answered PENDING
EvictionSafetyWitness ==
    /\ Acquired # Nil /\ Acquired.Status = StatusAcquired
    /\ Acquired.lastSeenAt = Oldest /\ Since(Oldest, Now) > TTL
    /\ Acquired.HeadSHA \in Registered
    /\ resp.op = "Acquire" /\ resp.err = NoErr /\ resp.status = StatusPending
    /\ resp.HeadSHA \in Registered
    /\ Known[resp.HeadSHA].lastSeenAt = Now

\* ----------------------------------------------------------------- C18
NoStalePending(st) ==
    \A k \in DOMAIN st.known :
        st.known[k].Status = StatusPending => ~(Since(st.known[k].lastSeenAt, Now) > TTL)

\* C18: at the return of every Acquire or Release call that was not rejected,
\* known contains no PENDING request with now - lastSeenAt > TTL.
TTLEviction ==
    /\ \A lr \in AcquireInputs : Out(lr).err = NoErr => NoStalePending(Out(lr).state)
    /\ \A lr \in ReleaseInputs : Rel(lr).err = NoErr => NoStalePending(Rel(lr).state)

\* a registered request is idle for longer than the TTL, and the Acquire of
\* another registered request evicts it and leaves |known| = 1
TTLEvictionWitness ==
    \E lr \in AcquireInputs :
        /\ lr.HeadSHA \in Registered
        /\ \E k \in Registered \ {lr.HeadSHA} :
              /\ Known[k].Status = StatusPending
              /\ Since(Known[k].lastSeenAt, Now) > TTL
        /\ Out(lr).err = NoErr
        /\ DOMAIN Out(lr).state.known = {lr.HeadSHA}

RejectionsSideEffectFree ==
    /\ \A lr \in AcquireInputs : Out(lr).err # NoErr => Out(lr).state = state
    /\ \A lr \in ReleaseInputs : Rel(lr).err # NoErr => Rel(lr).state = state

\* ------------------------------------------------------------------ C21
\* C21: for a head SHA that is registered when the insert/update step runs
\* (after cleanup), insert accepts the call exactly when the asserted status
\* (absent counts as PENDING) equals the stored status, or the stored status is
\* ACQUIRED and the asserted one is SUCCESS or FAILURE; every other pair fails
\* with the status-mismatch error and the stored status is unchanged.
Accepted(stored, asserted) ==
    \/ stored = asserted
    \/ stored = StatusAcquired /\ asserted \in {StatusSuccess, StatusFailure}

StatusValidation ==
    \A lr \in ProviderInputs :
        LET st1 == cleanup(state)
            sha == lr.HeadSHA
            ins == insert(state, lr, Now)
        IN  sha \in DOMAIN st1.known =>
              LET stored == StringDeref(st1.known[sha].Status, StatusPending)
                  asserted == StringDeref(lr.Status, StatusPending)
              IN  /\ (ins.err = NoErr) <=> Accepted(stored, asserted)
                  /\ ~Accepted(stored, asserted) =>
                        /\ ins.err = ErrStatusMismatch
                        /\ sha \in DOMAIN ins.state.known
                        /\ ins.state.known[sha].Status = st1.known[sha].Status

\* a call asserting another status for a request stored with SUCCESS was
\* rejected with the status-mismatch error
StatusValidationWitness ==
    /\ resp.err = ErrStatusMismatch
    /\ resp.HeadSHA \in Registered
    /\ Known[resp.HeadSHA].Status = StatusSuccess

\* ------------------------------------------------------------------ C22
\* C22: a request of a head SHA that is not registered is stored with status
\* PENDING when the call is accepted, and it is accepted only when it asserts
\* PENDING or no status; a call asserting another initial status is rejected
\* and no request is added to known.
NewRequestPending ==
    \A lr \in ProviderInputs :
        LET st1 == cleanup(state)
            sha == lr.HeadSHA
            ins == insert(state, lr, Now)
            out == AcquireCall(state, lr, Now)
        IN  sha \notin DOMAIN st1.known =>
              /\ ins.err = NoErr =>
                    /\ lr.Status \in {NoStatus, StatusPending}
                    /\ ins.req.Status = StatusPending
                    /\ ins.state.known[sha].Status = StatusPending
              /\ lr.Status \notin {NoStatus, StatusPending} =>
                    /\ out.err # NoErr
                    /\ out.state.known = st1.known
              /\ (st1.acquired = Nil /\ lr.Status \notin {NoStatus, StatusPending}) =>
                    out.err = ErrInvalidStatus
              /\ (st1.acquired = Nil /\ lr.Status \in {NoStatus, StatusPending}) =>
                    ins.err = NoErr

\* an Acquire of an unregistered head SHA asserting a status was rejected while
\* no lease was referenced, and the head SHA is still not registered
NewRequestPendingWitness ==
    /\ resp.op = "Acquire"
    /\ resp.err = ErrInvalidStatus
    /\ resp.HeadSHA \notin Registered
    /\ Registered # {}

\* ------------------------------------------------------------------ C23
\* C23: a Clear, in whatever state it is called, leaves the empty state with
\* lastUpdatedAt = now, no request in known, no acquired and delayCounter 0,
\* and saves it: as long as Clear is the last call, hydrating a new provider
\* from the storage gives the state the provider is in.
ClearStep == resp'.op = "Clear" /\ state' # Elapse(state)

ClearResets ==
    /\ [][ClearStep =>
            /\ state' = NewProviderState(Now)
            /\ storage' # Nil
            /\ Hydrate(NewProviderState(Now), storage') = state']_vars
    /\ [](resp.op = "Clear" =>
            /\ Known = <<>> /\ Acquired = Nil /\ state.delayCounter = 0
            /\ storage # Nil
            /\ Hydrate(NewProviderState(Now), storage) = state)

\* Clear was the last call and time has passed since
ClearResetsWitness ==
    /\ resp.op = "Clear"
    /\ storage # Nil
    /\ state.lastUpdatedAt < Now

\* ------------------------------------------------------------------ C24
\* C24: in every reachable state, unmarshalling the marshalled state into a
\* new provider state gives the state back: lastUpdatedAt, the requests of
\* known with status and lastSeenAt, the acquired reference, the delay counter.
PersistenceRoundTrip ==
    Unmarshal(NewProviderState(Now), Marshal(state)) = state

\* ------------------------------------------------------------------ C25
\* C25: calls on one provider are linearizable.  A call changes the state
\* only between its Lock and its Unlock, no other call does so meanwhile, and
\* what it leaves and returns is what the whole call, run alone on the state
\* it found at its Lock, leaves and returns: the calls take effect one after
\* the other, in the order of their Locks.
Linearizable ==
    \A c \in Clients :
        /\ calls[c].pc # "idle" => mutex = c
        /\ calls[c].pc = "locked" => state = calls[c].snap
        /\ calls[c].pc = "done" =>
              LET out == Atomic(calls[c].op, calls[c].snap, calls[c].req, Now)
              IN  /\ state = out.state
                  /\ calls[c].err = out.err
                  /\ calls[c].ret = out.req

\* a call that found a lease taken by an earlier call is through its body
LinearizableWitness ==
    \E c \in Clients :
        /\ calls[c].pc = "done"
        /\ calls[c].op = "Release"
        /\ calls[c].err = NoErr
        /\ calls[c].snap.acquired # Nil
        /\ resp.op = "Acquire"

\* ------------------------------------------------------------------ C26
\* C26: every read of the provider state is made under the provider mutex,
\* so the answer a handler builds after its call (BuildRequestContext, or the
\* provider's JSON) is the one of the state its call left, never one mixed
\* with the effects of another client's later call.
ConsistentResponse ==
    \A c \in Clients :
        calls[c].pc = "returned" =>
            \A body \in Answers(state, calls[c]) : body = calls[c].expect

\* ------------------------------------------------------------------ C27
\* C27: a call on the provider P leaves the in-memory state and the stored
\* blob of every other provider Q of the registry as they were.
ClockStep ==
    /\ resp' = resp
    /\ providers' = [k \in DOMAIN providers |-> [providers[k] EXCEPT !.state = Elapse(@)]]
    /\ store' = [k \in DOMAIN store |-> ElapseBlob(store[k])]
CallOn(k) == resp' # NoResponse /\ resp'.provider = k /\ ~ClockStep

SameOutcome(op, lr, out) == state' = out.state /\ resp' = Response(op, lr, out)

OutcomeOfAcquire ==
    \E lr \in AcquireInputs : SameOutcome("Acquire", lr, AcquireCall(state, lr, Now))
OutcomeOfRelease ==
    \E lr \in ReleaseInputs : SameOutcome("Release", lr, ReleaseCall(state, lr, Now))
OutcomeOfClear == state' = NewProviderState(Now) /\ resp'.op = "Clear" /\ resp'.err = NoErr
OutcomeOfTick == state' = Elapse(state) /\ resp' = resp

SaveErrorsNonFatal ==
    /\ [][OutcomeOfAcquire \/ OutcomeOfRelease \/ OutcomeOfClear \/ OutcomeOfTick]_vars
    /\ [](disk = Failing => storage = Nil)

\* with the storage failing, a holder was elected and released with success
SaveErrorsNonFatalWitness ==
    /\ disk = Failing
    /\ storage = Nil
    /\ resp.op = "Release" /\ resp.err = NoErr /\ resp.status = StatusCompleted
    /\ Size(Known) >= 2

\* ------------------------------------------------------------------ C28
\* C28: when acquired is absent, the registered requests have kept polling
\* (none is older than the TTL) and the stabilize duration has elapsed since
\* lastUpdatedAt, an Acquire that repeats a registered request returns it
\* ACQUIRED if its priority is the highest in known and PENDING otherwise,
\* however few requests are registered.
ElectionAfterStabilization ==
    \A lr \in AcquireInputs :
        (/\ Acquired = Nil
         /\ Repoll(lr)
         /\ NoStalePending(state)
         /\ Since(state.lastUpdatedAt, Now) >= StabilizeDuration) =>
            IF lr.Priority = maxPriority(Known)
            THEN Returned(Out(lr), StatusAcquired)
            ELSE Returned(Out(lr), StatusPending) /\ Out(lr).state.acquired = Nil

\* the highest of two registered requests, fewer than expected, was elected
\* once the stabilize duration had elapsed; the lower one is PENDING
ElectionAfterStabilizationWitness ==
    /\ Elected
    /\ Size(Known) = 2 /\ Size(Known) < ExpectedRequestCount
    /\ Since(state.lastUpdatedAt, Now) >= StabilizeDuration
    /\ \E k \in Registered :
          Known[k].Status = StatusPending /\ Known[k].Priority < Acquired.Priority

\* ------------------------------------------------------------------ C30
\* C30: the status of a stored request changes only along the diagram
\* none -> PENDING -> ACQUIRED -> SUCCESS -> COMPLETED, PENDING -> COMPLETED,
\* ACQUIRED -> FAILURE, one or more arrows in a call: a request is PENDING when
\* it is registered, no registered request goes back to PENDING, a COMPLETED
\* one keeps its status until it is discarded (its head SHA can then be
\* registered again as a new request), and the failed holder that acquired
\* still references keeps FAILURE.
Arrows ==
    {<<StatusPending, StatusAcquired>>, <<StatusPending, StatusCompleted>>,
     <<StatusAcquired, StatusSuccess>>, <<StatusAcquired, StatusFailure>>,
     <<StatusSuccess, StatusCompleted>>, <<StatusAcquired, StatusCompleted>>}

\* the request of k was discarded by the cleanup this call started with
Discarded(k) == k \notin DOMAIN cleanup(state).known

LifecycleStep ==
    /\ \A k \in DOMAIN state'.known :
          IF k \in Registered
          THEN \/ state'.known[k].Status = Known[k].Status
               \/ <<Known[k].Status, state'.known[k].Status>> \in Arrows
               \/ Discarded(k) /\ state'.known[k].Status = StatusPending
          ELSE state'.known[k].Status \in {StatusPending, StatusAcquired}
    /\ (Acquired # Nil /\ Acquired.Status \in {StatusFailure, StatusCompleted}
           /\ state'.acquired # Nil /\ state'.acquired.HeadSHA = Acquired.HeadSHA) =>
          state'.acquired.Status = Acquired.Status

RequestLifecycle == [][LifecycleStep]_vars

\* a holder was released with success and is COMPLETED, siblings are PENDING
RequestLifecycleWitness ==
    /\ resp.op = "Release" /\ resp.err = NoErr /\ resp.status = StatusCompleted
    /\ \E k \in Registered : Known[k].Status = StatusPending

\* ------------------------------------------------------------------ C31
\* what a call does to the request stored under its head SHA once cleanup has
\* run: it registers it, or it finds it with another priority or head ref, or
\* as ACQUIRED while the call asserts SUCCESS or FAILURE
Registers(lr, out) == lr.HeadSHA \notin DOMAIN cleanup(state).known /\ out.err = NoErr
Changes(lr) ==
    /\ lr.HeadSHA \in DOMAIN cleanup(state).known
    /\ \/ cleanup(state).known[lr.HeadSHA].Priority # lr.Priority
       \/ cleanup(state).known[lr.HeadSHA].HeadRef # lr.HeadRef
       \/ /\ cleanup(state).known[lr.HeadSHA].Status = StatusAcquired
          /\ lr.Status \in {StatusSuccess, StatusFailure}
\* Release passes its request to insert when it names the holder
ReachesInsert(lr) == Acquired # Nil /\ Acquired.HeadSHA = lr.HeadSHA
LastUpdatedAfter(touched) == IF touched THEN Now ELSE state.lastUpdatedAt

\* C31: lastUpdatedAt is set to now exactly when a call registers a new
\* request, changes a stored priority or head ref, applies an
\* ACQUIRED -> SUCCESS/FAILURE transition, or Clear runs; every other call
\* (TTL eviction, cleanup, sibling completion, election, a poll that changes
\* nothing) leaves it as it was.
LastUpdatedAtLaw ==
    /\ [](/\ \A lr \in AcquireInputs :
                Out(lr).state.lastUpdatedAt =
                    LastUpdatedAfter(Registers(lr, Out(lr)) \/ Changes(lr))
          /\ \A lr \in ReleaseInputs :
                Rel(lr).state.lastUpdatedAt =
                    LastUpdatedAfter(ReachesInsert(lr) /\ (Registers(lr, Rel(lr)) \/ Changes(lr))))
    /\ [][ClearStep => state'.lastUpdatedAt = Now]_vars

\* the same law for the calls that are accepted
LastUpdatedAtLawAccepted ==
    /\ \A lr \in AcquireInputs :
          Out(lr).err = NoErr =>
              Out(lr).state.lastUpdatedAt =
                  LastUpdatedAfter(Registers(lr, Out(lr)) \/ Changes(lr))
    /\ \A lr \in ReleaseInputs :
          Rel(lr).err = NoErr =>
              Rel(lr).state.lastUpdatedAt =
                  LastUpdatedAfter(ReachesInsert(lr) /\ (Registers(lr, Rel(lr)) \/ Changes(lr)))

\* ------------------------------------------------------------------ C32
\* the list holds exactly one entry for every request of known whose priority
\* is not above the winner's, by ascending priority
ListOfElection(list, known, winner) ==
    \E f \in [DOMAIN list -> {k \in DOMAIN known : known[k].Priority <= winner.Priority}] :
        /\ \A i, j \in DOMAIN list : i # j => f[i] # f[j]
        /\ \A k \in DOMAIN known : known[k].Priority <= winner.Priority => \E i \in DOMAIN list : f[i] = k
        /\ \A i \in DOMAIN list : list[i].Number = getPRNumberFromRef(known[f[i]].HeadRef)
        /\ \A i, j \in DOMAIN list : i < j => known[f[i]].Priority <= known[f[j]].Priority

\* C32: in the response that returns a request as ACQUIRED, the stacked list
\* holds exactly one entry for every request that was in known at the election
\* with priority <= the winner's (the winner included), by ascending priority.
StackedOfWinner ==
    \A c \in Clients :
        (calls[c].pc = "returned" /\ calls[c].snap # Nil) =>
            \A r \in Reads(state, calls[c].ret) :
                r.Status = StatusAcquired =>
                    \A list \in stackedPullRequests(state, r) :
                        ListOfElection(list, calls[c].snap.known, calls[c].ret)

\* the same for the list computed on the state the electing call left
StackedOfWinnerAtElection ==
    \A lr \in AcquireInputs :
        Returned(Out(lr), StatusAcquired) =>
            /\ stackedPullRequests(Out(lr).state, Out(lr).req) # {}
            /\ \A list \in stackedPullRequests(Out(lr).state, Out(lr).req) :
                  /\ ListOfElection(list, Out(lr).state.known, Out(lr).req)
                  /\ Len(list) = Size(Out(lr).state.known)

\* ------------------------------------------------------------------ C33
\* the context carries a stacked list (an empty list is left out of the JSON)
Carries(ctx) == ctx.StackedPullRequests # {}
StackedWhenAcquired(ctx) == Carries(ctx) <=> ctx.Status = StatusAcquired

\* C33: a request context carries stacked pull requests when and only when
\* the status of its request is ACQUIRED, in the answers of Acquire and
\* Release and in the listing of the provider (known and acquired).
StackedIffAcquired ==
    /\ \A c \in Clients :
          (calls[c].pc = "returned" /\ calls[c].err = NoErr /\ calls[c].op # "Clear") =>
              \A body \in Answers(state, calls[c]) : body # Nil => StackedWhenAcquired(body)
    /\ \A ctx \in MarshalJSON(state).known : StackedWhenAcquired(ctx)
    /\ MarshalJSON(state).acquired # Nil => StackedWhenAcquired(MarshalJSON(state).acquired)

\* the same for the contexts built on the state the call left
StackedIffAcquiredAtReturn ==
    /\ \A lr \in AcquireInputs :
          Out(lr).err = NoErr =>
              StackedWhenAcquired(BuildRequestContext(Out(lr).state, Out(lr).req))
    /\ \A lr \in ReleaseInputs :
          Rel(lr).err = NoErr =>
              StackedWhenAcquired(BuildRequestContext(Rel(lr).state, Rel(lr).req))
    /\ \A ctx \in MarshalJSON(state).known : StackedWhenAcquired(ctx)
    /\ MarshalJSON(state).acquired # Nil => StackedWhenAcquired(MarshalJSON(state).acquired)

\* ------------------------------------------------------------------ C34
\* the call of client c returns: its deferred saveState and Unlock have run
ReturnStep(c) == calls[c].pc = "done" /\ calls'[c].pc = "idle"
SavedAtReturn ==
    \A c \in Clients : ReturnStep(c) => (mutex = c /\ storage' = Marshal(state'))
SavedInOrder ==
    storage' # storage => ((\E c \in Clients : ReturnStep(c)) \/ storage' = ElapseBlob(storage))

\* C34: with a working storage, when an Acquire, Release or Clear call
\* returns (accepted or rejected) the stored blob is the serialization of the
\* state at that return, and the saves are committed in the order of the calls'
\* critical sections: a blob is written by the call that holds the mutex, as it
\* returns, and between two critical sections the blob is the state's.
StorageFollowsMemory ==
    /\ [][SavedAtReturn /\ SavedInOrder]_vars
    /\ []((mutex = Free /\ resp # NoResponse) => storage = Marshal(state))

\* a rejected call has returned and saved the state the accepted ones left,
\* and the other client's call is in its critical section
StorageFollowsMemoryWitness ==
    /\ resp.err # NoErr
    /\ storage # Nil /\ storage.known # <<>>
    /\ mutex # Free
    /\ state # Unmarshal(NewProviderState(Now), storage)

\* ------------------------------------------------------------------ C35
\* the state HydrateFromState leaves when it is called now
Hydrated == Hydrate(state, storage)

\* C35: when a blob is stored for the provider, HydrateFromState replaces the
\* whole in-memory state by the stored one (lastUpdatedAt and every request
\* of known), and acquired is present afterwards if and only if the blob's
\* acquired_sha names a key of the hydrated known, whatever acquired was
\* before; when no blob is stored the state is left as it is.
Hydration ==
    IF storage = Nil THEN Hydrated = state
    ELSE /\ Marshal(Hydrated).last_updated_at = storage.last_updated_at
         /\ Marshal(Hydrated).known = storage.known
         /\ Hydrated.acquired # Nil <=> storage.acquired_sha \in DOMAIN Hydrated.known
         /\ Hydrated.acquired # Nil => Hydrated.acquired = Hydrated.known[storage.acquired_sha]

\* the same for a provider that holds no lease when it is hydrated, as the
\* new provider of a starting server
HydrationOfNew ==
    Acquired = Nil => Hydration

\* ------------------------------------------------------------------ C36
\* C36: in every reachable state, if known is empty then acquired is absent:
\* the provider never holds a lease with no known request.
NoOrphanedLease == Known = <<>> => Acquired = Nil

\* ------------------------------------------------------------------ C37
\* no lease is being worked on: no request is ACQUIRED or SUCCESS
NoLeaseWorkedOn ==
    /\ \A k \in Registered : Known[k].Status \notin {StatusAcquired, StatusSuccess}
    /\ Acquired # Nil => Acquired.Status \notin {StatusAcquired, StatusSuccess}
\* the requests in known stopped polling and the TTL has elapsed since
AllIdle == \A k \in Registered : Since(Known[k].lastSeenAt, Now) > TTL

\* C37: from every reachable state in which no request is ACQUIRED or
\* SUCCESS, once the requests in known have stopped polling for longer than
\* the TTL, an Acquire naming a new head SHA is accepted and registers it,
\* without a Clear or a restart.  (A rejected Acquire of a new head SHA leaves
\* the state as it is, so the first one decides for all that follow.)
NoPermanentLockOut ==
    (NoLeaseWorkedOn /\ AllIdle) =>
        \A lr \in AcquireInputs :
            lr.HeadSHA \notin Registered =>
                /\ Out(lr).err = NoErr
                /\ lr.HeadSHA \in DOMAIN Out(lr).state.known

\* the same when no lease is recorded at all
NoLockOutWithoutLease ==
    (Acquired = Nil /\ AllIdle) =>
        \A lr \in AcquireInputs :
            lr.HeadSHA \notin Registered =>
                /\ Out(lr).err = NoErr
                /\ lr.HeadSHA \in DOMAIN Out(lr).state.known

\* ------------------------------------------------------------------ C38
\* the request names the holder, whose stored status is ACQUIRED
ByHolder(lr) ==
    Acquired # Nil /\ Acquired.Status = StatusAcquired /\ lr.HeadSHA = Acquired.HeadSHA

\* C38: an Acquire by the current holder (stored status ACQUIRED, no status
\* asserted) is rejected with the status-mismatch error and is not answered
\* ACQUIRED again; the holder stays the holder, and its stored status stays
\* ACQUIRED, in acquired and in known.
HolderAcquireRejected ==
    \A lr \in AcquireInputs :
        ByHolder(lr) =>
            /\ Out(lr).err = ErrStatusMismatch
            /\ ~Returned(Out(lr), StatusAcquired)
            /\ Out(lr).state.acquired # Nil
            /\ Out(lr).state.acquired.HeadSHA = Acquired.HeadSHA
            /\ Out(lr).state.acquired.Status = StatusAcquired
            /\ lr.HeadSHA \in DOMAIN Out(lr).state.known
            /\ Out(lr).state.known[lr.HeadSHA].Status = StatusAcquired

\* the holder polled and was rejected, with siblings registered
HolderAcquireRejectedWitness ==
    /\ resp.op = "Acquire" /\ resp.err = ErrStatusMismatch
    /\ Acquired # Nil /\ Acquired.Status = StatusAcquired
    /\ resp.HeadSHA = Acquired.HeadSHA
    /\ Size(Known) > 1

\* ------------------------------------------------------------------ C39
\* cleanup clears acquired in the state st
CleanupFires(st) ==
    st.acquired # Nil /\ st.acquired.Status = StatusCompleted /\ Size(st.known) = 1

\* C39: whenever cleanup clears acquired (acquired COMPLETED and one request
\* in known), the single request in known is the acquired one: there is no
\* reachable state in which acquired is COMPLETED and missing from known while
\* exactly one other request remains.
CleanupDropsTheWinner ==
    CleanupFires(state) => Acquired.HeadSHA \in Registered

\* the last sibling was answered COMPLETED and only the finished holder is
\* left, which the cleanup of the next call drops
CleanupDropsTheWinnerWitness ==
    /\ CleanupFires(state)
    /\ Known[Acquired.HeadSHA].Status = StatusCompleted
    /\ resp.op = "Acquire" /\ resp.status = StatusCompleted
    /\ cleanup(state).known = <<>> /\ cleanup(state).acquired = Nil
====
